---- MODULE Spec2Model ----
(***************************************************************************)
(* Boundary-tag allocator of src/src/mm.cpp over the fixed region of       *)
(* src/src/memlib.cpp.                                                     *)
(*                                                                         *)
(* Representation.  Every pointer the allocator computes is the region     *)
(* base plus multiples of 4, so a pointer is modelled by its word index    *)
(* (byte address divided by WORD_SIZE) and a block size by its number of   *)
(* words.  A 32-bit memory word of value v is the record                   *)
(* [q |-> v \div 4, r |-> v % 4], q < 2^30, which keeps the full 32-bit    *)
(* width of headers (a header of 2^32 - 24 is [q |-> 2^30 - 6, r |-> 0]).  *)
(* Pointers and std::size_t are 64 bits wide (LP64), so only the           *)
(* conversion to uint32_t in pack truncates.                               *)
(*                                                                         *)
(* The memory is sparse: mem maps the words that have been written.  A     *)
(* word that was never written holds an indeterminate value, junk, drawn   *)
(* when the region is acquired.  An access outside the region acquired by  *)
(* mem_init (or to a region already released) is undefined behaviour: the  *)
(* call either faults (status "crashed") or goes on with the access having *)
(* hit the addressed word.                                                 *)
(***************************************************************************)
EXTENDS Integers, Sequences, FiniteSets, TLC

WORD_SIZE == 4
DOUBLE_SIZE == 8
CHUNK_SIZE == 4096
MiB == 1048576
MAX_HEAP_SIZE == 20 * MiB

\* ---- bounds of the model ------------------------------------------------
MaxLive == 2        \* live handles before a call that adds one
MaxAllocs == 3      \* calls of mm_malloc since the last mm_init, any size
MaxDataAllocs == 5  \* the same, of a run whose requests the first chunk serves
MaxBase == 1        \* region bases tried: 65536 * 1 .. 65536 * MaxBase
MaxOff == 2         \* payload words 0 .. MaxOff-1 the caller writes
MaxWrites == 1      \* payload words the caller writes since the last mm_init
MaxExhaust == 23    \* calls of a run that allocates one size again and again
MaxSbrk == 4        \* calls of mem_sbrk since the last mem_init
MaxRequest == 80    \* request sizes 1 .. MaxRequest of the size computation

NULL == 0

\* bytes to words
W(bytes) == bytes \div WORD_SIZE

Two30 == 2^30

\* a 32-bit value below 2^31 as a memory word
MkWord(v) == [q |-> v \div 4, r |-> v % 4]

Bases == {W(65536) * k : k \in 1..MaxBase}
JunkWords == {MkWord(0), MkWord(1)}
UserWords == {MkWord(20)}
SmallSizes == {8, 30}
FillSizes == {12, 4056}
LifeSizes == {16}
Sizes == SmallSizes \cup {5000}
ExhaustSizes == {k * MiB : k \in {1, 2, 4, 5, 10, 20}}
NoMem == [a \in {} |-> MkWord(0)]
\* std::size_t arguments of mem_sbrk; the negative ones stand for 2^64 - 8
\* and 2^64 - 4096
Increments == {0, DOUBLE_SIZE, CHUNK_SIZE, MiB, MAX_HEAP_SIZE,
               -DOUBLE_SIZE, -CHUNK_SIZE}

VARIABLES
  mem,            \* the written words of memory
  junk,           \* value of the words never written
  region,         \* "none", "live" or "freed": the buffer of mem_init
  heap_start, heap_brk, heap_max_addr,   \* memlib.cpp
  heap_listp,     \* mm.cpp
  status,         \* "run" or "crashed"
  live,           \* handles returned and not freed |-> block words then
  shadow,         \* payload words written by the caller |-> value
  nalloc,         \* calls of mm_malloc since the last mm_init
  nwrite,         \* payload writes of the caller since the last mm_init
  last            \* the last call of the allocator and its result

vars == <<mem, junk, region, heap_start, heap_brk, heap_max_addr,
          heap_listp, status, live, shadow, nalloc, nwrite, last>>

\* the allocator state as one value; ub collects undefined accesses of a call
Cur == [mem |-> mem, junk |-> junk, region |-> region,
        heap_start |-> heap_start, heap_brk |-> heap_brk,
        heap_max_addr |-> heap_max_addr, heap_listp |-> heap_listp,
        ub |-> FALSE]

InBuf(S, p) == S.region = "live" /\ S.heap_start <= p /\ p < S.heap_max_addr

\* a read of the words ps: undefined when one lies outside the region
Touch(S, ps) == [S EXCEPT !.ub = @ \/ \E p \in ps : ~InBuf(S, p)]

pack(size, alloc) == [q |-> size % Two30, r |-> alloc]

get_uat(S, p) == IF p \in DOMAIN S.mem THEN S.mem[p] ELSE S.junk

put_uvalue_at(S, p, v) ==
  [S EXCEPT !.mem = (p :> v) @@ @, !.ub = @ \/ ~InBuf(S, p)]

get_blksize(S, p) == LET w == get_uat(S, p) IN w.q - (w.q % 2)

get_allocated(S, p) == get_uat(S, p).r % 2 = 1

get_header_ptr(bp) == bp - W(WORD_SIZE)

get_footer_ptr(S, bp) == bp + get_blksize(S, get_header_ptr(bp)) - W(DOUBLE_SIZE)

get_nextblk_ptr(S, bp) == bp + get_blksize(S, bp - W(WORD_SIZE))

get_prevblk_ptr(S, bp) == bp - get_blksize(S, bp - W(DOUBLE_SIZE))

\* the template of mm.cpp returns bool: the larger value converted to 0 or 1
max(x, y) == IF (IF x > y THEN x ELSE y) # 0 THEN 1 ELSE 0

mem_init(S, base, jk) ==
  [S EXCEPT !.mem = NoMem, !.junk = jk, !.region = "live",
            !.heap_start = base, !.heap_brk = base,
            !.heap_max_addr = base + W(MAX_HEAP_SIZE)]

\* increment is a std::size_t: a value of 2^63 or more is written here as the
\* negative number it is congruent to mod 2^64, `increment < 0` is false of
\* every value, and heap_brk + increment wraps around in the builds of the
\* repository
mem_sbrk(S, increment) ==
  IF FALSE \/ S.heap_brk + W(increment) > S.heap_max_addr
  THEN [S |-> S, ret |-> NULL]
  ELSE [S |-> [S EXCEPT !.heap_brk = @ + W(increment)], ret |-> S.heap_brk]

mem_teardown(S) == [S EXCEPT !.region = "freed"]

\* put_uvalue_at(get_header_ptr(bp), w)
put_header(S, bp, w) == put_uvalue_at(S, get_header_ptr(bp), w)

\* put_uvalue_at(get_footer_ptr(bp), w): the footer is found through the
\* header as it reads now
put_footer(S, bp, w) == put_uvalue_at(S, get_footer_ptr(S, bp), w)

\* put_uvalue_at(get_header_ptr(get_nextblk_ptr(bp)), w)
put_next_header(S, bp, w) ==
  put_uvalue_at(S, get_header_ptr(get_nextblk_ptr(S, bp)), w)

\* put_uvalue_at(get_footer_ptr(get_nextblk_ptr(bp)), w)
put_next_footer(S, bp, w) ==
  put_uvalue_at(Touch(S, {get_header_ptr(bp),
                          get_header_ptr(get_nextblk_ptr(S, bp))}),
                get_footer_ptr(S, get_nextblk_ptr(S, bp)), w)

\* put_uvalue_at(get_header_ptr(get_prevblk_ptr(bp)), w)
put_prev_header(S, bp, w) ==
  put_uvalue_at(Touch(S, {bp - W(DOUBLE_SIZE)}),
                get_header_ptr(get_prevblk_ptr(S, bp)), w)

coalesce(S, block_ptr) ==
  LET prevp == get_prevblk_ptr(S, block_ptr)
      nextp == get_nextblk_ptr(S, block_ptr)
      prev_allocated == get_allocated(S, get_footer_ptr(S, prevp))
      next_allocated == get_allocated(S, get_header_ptr(nextp))
      size == get_blksize(S, get_header_ptr(block_ptr))
      prev_size == get_blksize(S, get_header_ptr(prevp))
      next_size == get_blksize(S, get_header_ptr(nextp))
      R == Touch(S, {block_ptr - W(DOUBLE_SIZE), get_header_ptr(prevp),
                     get_footer_ptr(S, prevp), get_header_ptr(block_ptr),
                     get_header_ptr(nextp)})
  IN  IF prev_allocated /\ next_allocated
      THEN [S |-> R, ret |-> block_ptr]
      ELSE IF prev_allocated /\ ~next_allocated
      THEN [S |-> put_next_footer(
                    put_header(R, block_ptr, pack(size + next_size, 0)),
                    block_ptr, pack(size + next_size, 0)),
            ret |-> block_ptr]
      ELSE IF ~prev_allocated /\ next_allocated
      THEN [S |-> put_prev_header(
                    put_footer(R, block_ptr, pack(size + prev_size, 0)),
                    block_ptr, pack(size + prev_size, 0)),
            ret |-> prevp]
      ELSE [S |-> put_next_footer(
                    put_header(R, prevp, pack(size + prev_size + next_size, 0)),
                    block_ptr, pack(size + prev_size + next_size, 0)),
            ret |-> prevp]

\* extend_heap with a block header and footer 8 bytes short of the increment
extend_heap_short(S, words) ==
  LET size == IF words % 2 = 0 THEN words ELSE words + 1
      r == mem_sbrk(S, size * WORD_SIZE)
  IN  IF r.ret = NULL
      THEN [S |-> r.S, ret |-> NULL]
      ELSE coalesce(
             put_next_header(
               put_footer(put_header(r.S, r.ret, pack(size - W(DOUBLE_SIZE), 0)),
                          r.ret, pack(size - W(DOUBLE_SIZE), 0)),
               r.ret, pack(0, 1)),
             r.ret)

extend_heap(S, words) ==
  LET size == IF words % 2 = 0 THEN words ELSE words + 1
      r == mem_sbrk(S, size * WORD_SIZE)
  IN  IF r.ret = NULL
      THEN [S |-> r.S, ret |-> NULL]
      ELSE coalesce(
             put_next_header(
               put_footer(put_header(r.S, r.ret, pack(size, 0)),
                          r.ret, pack(size, 0)),
               r.ret, pack(0, 1)),
             r.ret)

\* the return value of mm_init after its call of extend_heap
mm_init_ret(e) == [S |-> e.S, ret |-> IF e.ret = NULL THEN -1 ELSE 0]

\* mm_init without the alignment padding word in front of the prologue
mm_init_nopad(S, base, jk) ==
  LET r == mem_sbrk(mem_init(S, base, jk), 3 * WORD_SIZE)
      p == r.ret
  IN  IF r.ret = NULL
      THEN [S |-> [r.S EXCEPT !.heap_listp = NULL], ret |-> -1]
      ELSE mm_init_ret(extend_heap(
             [put_uvalue_at(
                put_uvalue_at(
                  put_uvalue_at(r.S, p, pack(W(DOUBLE_SIZE), 1)),
                  p + W(WORD_SIZE), pack(W(DOUBLE_SIZE), 1)),
                p + W(2 * WORD_SIZE), pack(0, 1))
              EXCEPT !.heap_listp = p + W(WORD_SIZE)],
             CHUNK_SIZE \div WORD_SIZE))

mm_init(S, base, jk) ==
  LET r == mem_sbrk(mem_init(S, base, jk), 4 * WORD_SIZE)
      p == r.ret
  IN  IF r.ret = NULL
      THEN [S |-> [r.S EXCEPT !.heap_listp = NULL], ret |-> -1]
      ELSE mm_init_ret(extend_heap(
             [put_uvalue_at(
                put_uvalue_at(
                  put_uvalue_at(
                    put_uvalue_at(r.S, p, MkWord(0)),
                    p + W(WORD_SIZE), pack(W(DOUBLE_SIZE), 1)),
                  p + W(2 * WORD_SIZE), pack(W(DOUBLE_SIZE), 1)),
                p + W(3 * WORD_SIZE), pack(0, 1))
              EXCEPT !.heap_listp = p + W(2 * WORD_SIZE)],
             CHUNK_SIZE \div WORD_SIZE))

\* place: header and footer of the remainder behind the block just placed
place_split(S, block_ptr, rest) ==
  put_footer(put_header(S, get_nextblk_ptr(S, block_ptr), pack(rest, 0)),
             get_nextblk_ptr(S, block_ptr), pack(rest, 0))

\* place without the split: the whole block is handed out
place_whole(S, block_ptr, asize) ==
  LET curr_size == get_blksize(S, get_header_ptr(block_ptr))
      R == Touch(S, {get_header_ptr(block_ptr)})
  IN  put_footer(put_header(R, block_ptr, pack(curr_size, 1)),
                 block_ptr, pack(curr_size, 1))

place(S, block_ptr, asize) ==
  LET curr_size == get_blksize(S, get_header_ptr(block_ptr))
      R == Touch(S, {get_header_ptr(block_ptr)})
      \* curr_size - asize is unsigned: it wraps when asize > curr_size
      split == curr_size < asize \/ curr_size - asize >= W(2 * DOUBLE_SIZE)
      rest == (curr_size - asize + Two30) % Two30
  IN  IF split
      THEN place_split(
             put_footer(put_header(R, block_ptr, pack(asize, 1)),
                        block_ptr, pack(asize, 1)),
             block_ptr, rest)
      ELSE put_footer(put_header(R, block_ptr, pack(curr_size, 1)),
                      block_ptr, pack(curr_size, 1))

RECURSIVE find_fit_from(_, _, _)
find_fit_from(S, block_ptr, asize) ==
  LET hp == get_header_ptr(block_ptr)
      sz == get_blksize(S, hp)
  IN  IF ~(sz > 0)
      THEN [ret |-> NULL, ub |-> ~InBuf(S, hp)]
      ELSE IF ~get_allocated(S, hp) /\ asize <= sz
      THEN [ret |-> block_ptr, ub |-> ~InBuf(S, hp)]
      ELSE [find_fit_from(S, get_nextblk_ptr(S, block_ptr), asize)
            EXCEPT !.ub = @ \/ ~InBuf(S, hp)]

\* find_fit that starts its search behind the first block of the heap
find_fit_behind(S, asize) ==
  find_fit_from(S, get_nextblk_ptr(S, get_nextblk_ptr(S, S.heap_listp)), asize)

find_fit(S, asize) == find_fit_from(S, S.heap_listp, asize)

\* an adjusted size without the minimum of two double words
adjusted_size_small(size) ==
  IF size <= DOUBLE_SIZE
  THEN DOUBLE_SIZE
  ELSE LET actual_reqsize == size + 2 * WORD_SIZE
       IN  actual_reqsize + (DOUBLE_SIZE - (actual_reqsize % DOUBLE_SIZE))

\* the adjusted block size of mm_malloc, in bytes
adjusted_size(size) ==
  IF size <= DOUBLE_SIZE
  THEN 2 * DOUBLE_SIZE
  ELSE LET actual_reqsize == size + 2 * WORD_SIZE
       IN  actual_reqsize + (DOUBLE_SIZE - (actual_reqsize % DOUBLE_SIZE))

\* mm_malloc after extend_heap returned e
malloc_extended(e, asize) ==
  IF e.ret = NULL
  THEN [S |-> e.S, ret |-> NULL]
  ELSE [S |-> place(e.S, e.ret, W(asize)), ret |-> e.ret]

\* mm_malloc after find_fit returned f
malloc_fit(S, f, asize) ==
  IF f.ret # NULL
  THEN [S |-> place([S EXCEPT !.ub = @ \/ f.ub], f.ret, W(asize)),
        ret |-> f.ret]
  ELSE malloc_extended(
         extend_heap([S EXCEPT !.ub = @ \/ f.ub],
                     max(asize, CHUNK_SIZE) \div WORD_SIZE),
         asize)

\* mm_malloc without the test for a request of 0 bytes
malloc_ready_nozero(S, size) ==
  malloc_fit(S, find_fit(S, W(adjusted_size(size))), adjusted_size(size))

\* mm_malloc once heap_listp is set
malloc_ready(S, size) ==
  IF size = 0
  THEN [S |-> S, ret |-> NULL]
  ELSE malloc_fit(S, find_fit(S, W(adjusted_size(size))), adjusted_size(size))

mm_malloc(S, size, base, jk) ==
  malloc_ready(IF S.heap_listp = NULL THEN mm_init(S, base, jk).S ELSE S, size)

\* mm_free once heap_listp is set
free_ready(S, block_ptr, size) ==
  coalesce(put_footer(put_header(S, block_ptr, pack(size, 0)),
                      block_ptr, pack(size, 0)),
           block_ptr).S

mm_free(S, block_ptr, base, jk) ==
  LET size == get_blksize(S, get_header_ptr(block_ptr))
      R == Touch(S, {get_header_ptr(block_ptr)})
  IN  IF block_ptr = NULL
      THEN S
      ELSE free_ready(IF R.heap_listp = NULL THEN mm_init(R, base, jk).S ELSE R,
                      block_ptr, size)

\* k low-order bytes of word s over word d (little-endian), 0 < k < 4
MixWord(s, d, k) ==
  LET m == 2^(8 * k - 2)
  IN  [q |-> (s.q % m) + (d.q \div m) * m, r |-> s.r]

\* std::memcpy of n bytes; overlapping ranges and ranges outside the region
\* are undefined
memcpy(S, dst, src, n) ==
  LET full == n \div WORD_SIZE
      part == n % WORD_SIZE
      len == IF part = 0 THEN full ELSE full + 1
      kept == {a \in DOMAIN S.mem : a < dst \/ a >= dst + full}
      moved == {a - src + dst : a \in {b \in DOMAIN S.mem : src <= b /\ b < src + full}}
      m1 == [a \in kept \cup moved |->
               IF a \in moved THEN S.mem[a - dst + src] ELSE S.mem[a]]
      lastw == MixWord(get_uat(S, src + full), get_uat(S, dst + full), part)
      bad == len > 0 /\ (\/ ~InBuf(S, src) \/ ~InBuf(S, src + len - 1)
                         \/ ~InBuf(S, dst) \/ ~InBuf(S, dst + len - 1)
                         \/ (src < dst + len /\ dst < src + len))
  IN  [S EXCEPT !.mem = IF part = 0 THEN m1 ELSE ((dst + full) :> lastw) @@ m1,
                !.ub = @ \/ bad]

\* mm_realloc after its call of mm_malloc returned m
realloc_copy(m, block_ptr, size, base, jk) ==
  LET oldsize == get_blksize(m.S, get_header_ptr(block_ptr)) * WORD_SIZE
      n == IF size < oldsize THEN size ELSE oldsize
  IN  IF block_ptr = NULL THEN m
      ELSE IF m.ret = NULL THEN [S |-> m.S, ret |-> NULL]
      ELSE [S |-> mm_free(memcpy(Touch(m.S, {get_header_ptr(block_ptr)}),
                                 m.ret, block_ptr, n),
                          block_ptr, base, jk),
            ret |-> m.ret]

mm_realloc(S, block_ptr, size, base, jk) ==
  IF size = 0
  THEN [S |-> mm_free(S, block_ptr, base, jk), ret |-> NULL]
  ELSE realloc_copy(mm_malloc(S, size, base, jk), block_ptr, size, base, jk)

\* the diagnostics of checkblock
checkblock(S, block_ptr) ==
  (IF block_ptr % W(DOUBLE_SIZE) # 0 THEN {"not doubleword aligned"} ELSE {})
  \cup (IF get_uat(S, get_header_ptr(block_ptr))
            # get_uat(S, get_footer_ptr(S, block_ptr))
         THEN {"header does not match footer"} ELSE {})

\* the handles met from bp on, the last one being the first of size 0
RECURSIVE checkheap_loop(_, _)
checkheap_loop(S, bp) ==
  IF get_blksize(S, get_header_ptr(bp)) > 0
  THEN <<bp>> \o checkheap_loop(S, get_nextblk_ptr(S, bp))
  ELSE <<bp>>

\* the diagnostics of checkheap(0), with the loop of checkheap having met
\* the handles w; the heap itself is only read
checkheap_over(S, w) ==
  [diag |->
     (IF get_blksize(S, get_header_ptr(S.heap_listp)) # W(DOUBLE_SIZE)
         \/ ~get_allocated(S, get_header_ptr(S.heap_listp))
      THEN {"Bad prologue header"} ELSE {})
     \cup checkblock(S, S.heap_listp)
     \cup UNION {checkblock(S, w[i]) : i \in 1 .. Len(w) - 1}
     \cup (IF get_blksize(S, get_header_ptr(w[Len(w)])) # 0
             \/ ~get_allocated(S, get_header_ptr(w[Len(w)]))
          THEN {"Bad epilogue header"} ELSE {}),
   S |-> Touch(S, {get_header_ptr(w[i]) : i \in 1 .. Len(w)}
                  \cup {get_footer_ptr(S, w[i]) : i \in 1 .. Len(w) - 1})]

checkheap(S) == checkheap_over(S, checkheap_loop(S, S.heap_listp))

mm_checkheap(S) == checkheap(S)


mm_teardown(S) == mem_teardown(S)

NoLive == [h \in {} |-> 0]

Init ==
  /\ mem = NoMem
  /\ junk = MkWord(0)
  /\ region = "none"
  /\ heap_start = NULL /\ heap_brk = NULL /\ heap_max_addr = NULL
  /\ heap_listp = NULL
  /\ status = "run"
  /\ live = NoLive
  /\ shadow = NoMem
  /\ nalloc = 0
  /\ nwrite = 0
  /\ last = [op |-> "none", n |-> 0, h |-> NULL, ret |-> NULL]

\* the state a call leaves; an undefined access may instead fault
Commit(S, lv, sh, l) ==
  /\ mem' = S.mem /\ junk' = S.junk /\ region' = S.region
  /\ heap_start' = S.heap_start /\ heap_brk' = S.heap_brk
  /\ heap_max_addr' = S.heap_max_addr /\ heap_listp' = S.heap_listp
  /\ \/ /\ status' = "run" /\ live' = lv /\ shadow' = sh /\ last' = l
        /\ nalloc' = IF l.op \in {"init", "mem_init"} THEN 0
                     ELSE IF l.op \in {"malloc", "sbrk"}
                             \/ (l.op = "realloc" /\ l.n # 0)
                     THEN nalloc + 1 ELSE nalloc
        /\ nwrite' = IF l.op = "init" THEN 0 ELSE nwrite
     \/ /\ S.ub
        /\ status' = "crashed" /\ live' = NoLive /\ shadow' = NoMem
        /\ nalloc' = 0 /\ nwrite' = 0
        /\ last' = [l EXCEPT !.ret = NULL]

\* mm_init returned r
InitReturns(r) ==
  Commit(r.S, NoLive, NoMem, [op |-> "init", n |-> 0, h |-> NULL, ret |-> r.ret])

MmInit ==
  /\ status = "run"
  /\ \E base \in Bases, jk \in JunkWords : InitReturns(mm_init(Cur, base, jk))

\* a is a payload word of the block of handle h, as sized when returned
InPayload(lv, h, a) == h <= a /\ a < h + lv[h] - W(DOUBLE_SIZE)

Without(f, h) == [a \in DOMAIN f \ {h} |-> f[a]]

Forget(sh, lv, h) == [a \in {b \in DOMAIN sh : ~InPayload(lv, h, b)} |-> sh[a]]

\* the region base and junk a lazy mm_init would draw
LazyBases == IF heap_listp = NULL THEN Bases ELSE {heap_start}
LazyJunk == IF heap_listp = NULL THEN JunkWords ELSE {junk}

\* mm_malloc(size) returned r: a non-null handle is live from now on
MallocReturns(r, size) ==
  Commit(r.S,
         IF r.ret = NULL THEN live
         ELSE (r.ret :> get_blksize(r.S, get_header_ptr(r.ret))) @@ live,
         shadow,
         [op |-> "malloc", n |-> size, h |-> NULL, ret |-> r.ret])

MallocOf(sizes, allocs) ==
  /\ status = "run"
  /\ Cardinality(DOMAIN live) < MaxLive
  /\ nalloc < allocs
  /\ \E size \in sizes \cup {0}, base \in LazyBases, jk \in LazyJunk :
       MallocReturns(mm_malloc(Cur, size, base, jk), size)

Free ==
  /\ status = "run"
  /\ \E h \in DOMAIN live, base \in LazyBases, jk \in LazyJunk :
       Commit(mm_free(Cur, h, base, jk), Without(live, h), Forget(shadow, live, h),
              [op |-> "free", n |-> 0, h |-> h, ret |-> NULL])

\* mm_realloc(h, size) returned r: h is given up when it was freed
ReallocReturns(r, h, size) ==
  LET gone == h # NULL /\ (size = 0 \/ r.ret # NULL)
      lv0 == IF gone THEN Without(live, h) ELSE live
  IN  Commit(r.S,
             IF r.ret = NULL THEN lv0
             ELSE (r.ret :> get_blksize(r.S, get_header_ptr(r.ret))) @@ lv0,
             IF gone THEN Forget(shadow, live, h) ELSE shadow,
             [op |-> "realloc", n |-> size, h |-> h, ret |-> r.ret])

ReallocOf(sizes, allocs) ==
  /\ status = "run"
  /\ \E h \in DOMAIN live \cup {NULL}, size \in sizes \cup {0},
        base \in LazyBases, jk \in LazyJunk :
       /\ h = NULL => Cardinality(DOMAIN live) < MaxLive
       /\ size # 0 => nalloc < allocs
       /\ ReallocReturns(mm_realloc(Cur, h, size, base, jk), h, size)

\* the caller stores a word into the payload of a live handle
Write ==
  /\ status = "run"
  /\ nwrite < MaxWrites
  /\ nwrite' = nwrite + 1
  /\ \E h \in DOMAIN live, k \in 0 .. MaxOff - 1, v \in UserWords :
       /\ InPayload(live, h, h + k)
       /\ mem' = ((h + k) :> v) @@ mem
       /\ shadow' = ((h + k) :> v) @@ shadow
       /\ UNCHANGED <<junk, region, heap_start, heap_brk, heap_max_addr,
                      heap_listp, status, live, nalloc, last>>

Malloc == MallocOf(Sizes, MaxAllocs)

Realloc == ReallocOf(Sizes, MaxAllocs)

MallocSmall == MallocOf(SmallSizes, MaxDataAllocs)

ReallocSmall == ReallocOf(SmallSizes, MaxDataAllocs)

\* the calls of the allocator, requests of every size class
Next == MmInit \/ Malloc \/ Free \/ Realloc

\* requests the first chunk can serve, and a caller that uses its payloads
NextData == MmInit \/ MallocSmall \/ Free \/ ReallocSmall \/ Write

Spec == Init /\ [][Next]_vars

SpecData == Init /\ [][NextData]_vars

\* mm_init, then mm_malloc of one fixed size again and again, never a free
AllocateAgain ==
  /\ status = "run"
  /\ last.op \in {"init", "malloc"}
  /\ nalloc < MaxExhaust
  /\ \E size \in IF last.op = "malloc" THEN {last.n} ELSE ExhaustSizes :
       MallocReturns(mm_malloc(Cur, size, heap_start, junk), size)

NextExhaust == MmInit \/ AllocateAgain

SpecExhaust == Init /\ [][NextExhaust]_vars

MallocFill == MallocOf(FillSizes, MaxAllocs)

\* requests that fill the first chunk to the last byte, and frees
NextFill == MmInit \/ MallocFill \/ Free

SpecFill == Init /\ [][NextFill]_vars

\* mm_teardown: every handle is dangling afterwards
MmTeardown ==
  /\ status = "run" /\ region = "live"
  /\ Commit(mm_teardown(Cur), NoLive, NoMem,
            [op |-> "teardown", n |-> 0, h |-> NULL, ret |-> NULL])

MallocLife == MallocOf(LifeSizes, MaxAllocs)

\* the life cycle: init, calls, teardown, and calls again
NextLife == MmInit \/ MmTeardown \/ MallocLife \/ Free

SpecLife == Init /\ [][NextLife]_vars

\* the coalesce scenario: mm_init, then three blocks of 64 bytes one after
\* the other; the frees follow
Allocate64 ==
  /\ status = "run" /\ heap_listp # NULL
  /\ nalloc < 3 /\ Cardinality(DOMAIN live) = nalloc
  /\ MallocReturns(mm_malloc(Cur, 64, heap_start, junk), 64)

NextCoalesce == MmInit \/ Allocate64 \/ Free \/ Write

SpecCoalesce == Init /\ [][NextCoalesce]_vars

\* ---- the heap as the walk from the prologue sees it ----------------------

\* the region source on its own: mem_init, mem_sbrk and mem_teardown
MemInit ==
  /\ status = "run" /\ region # "live"
  /\ \E base \in Bases, jk \in JunkWords :
       Commit(mem_init(Cur, base, jk), NoLive, NoMem,
              [op |-> "mem_init", n |-> 0, h |-> NULL, ret |-> NULL])

\* mem_sbrk(increment) returned r
SbrkReturns(r, increment) ==
  Commit(r.S, NoLive, NoMem,
         [op |-> "sbrk", n |-> increment, h |-> NULL, ret |-> r.ret])

MemSbrk ==
  /\ status = "run" /\ region = "live" /\ nalloc < MaxSbrk
  /\ \E increment \in Increments : SbrkReturns(mem_sbrk(Cur, increment), increment)

MemTeardown ==
  /\ status = "run" /\ region = "live"
  /\ Commit(mem_teardown(Cur), NoLive, NoMem,
            [op |-> "mem_teardown", n |-> 0, h |-> NULL, ret |-> NULL])

NextSbrk == MemInit \/ MemSbrk \/ MemTeardown
SpecSbrk == Init /\ [][NextSbrk]_vars

\* the size computation of mm_malloc on its own: a request of n bytes is
\* drawn, and the adjusted block size is computed for it
InitAdjust ==
  /\ mem = NoMem /\ junk = MkWord(0) /\ region = "none"
  /\ heap_start = NULL /\ heap_brk = NULL /\ heap_max_addr = NULL
  /\ heap_listp = NULL /\ status = "run"
  /\ live = NoLive /\ shadow = NoMem /\ nalloc = 0 /\ nwrite = 0
  /\ \E n \in 1 .. MaxRequest :
       last = [op |-> "request", n |-> n, h |-> NULL, ret |-> NULL]

Adjust ==
  /\ last.op = "request"
  /\ last' = [last EXCEPT !.op = "asize", !.ret = adjusted_size(last.n)]
  /\ UNCHANGED <<mem, junk, region, heap_start, heap_brk, heap_max_addr,
                 heap_listp, status, live, shadow, nalloc, nwrite>>

NextAdjust == Adjust
SpecAdjust == InitAdjust /\ [][NextAdjust]_vars


\* mm_checkheap(0) printed the diagnostics r.diag
CheckReturns(r) ==
  Commit(r.S, live, shadow,
         [op |-> "checkheap", n |-> Cardinality(r.diag), h |-> NULL, ret |-> NULL])

MmCheckheap ==
  /\ status = "run" /\ heap_listp # NULL /\ last.op # "checkheap"
  /\ CheckReturns(mm_checkheap(Cur))

NextCheck == MmInit \/ MallocSmall \/ Free \/ ReallocSmall \/ MmCheckheap
SpecCheck == Init /\ [][NextCheck]_vars



Ready == status = "run" /\ heap_listp # NULL

\* the handles met from bp on, the last one being the first of size 0
RECURSIVE WalkFrom(_, _)
WalkFrom(S, bp) ==
  IF get_blksize(S, get_header_ptr(bp)) > 0
  THEN <<bp>> \o WalkFrom(S, get_nextblk_ptr(S, bp))
  ELSE <<bp>>

Walk(S) == WalkFrom(S, S.heap_listp)

Hdr(S, bp) == get_uat(S, get_header_ptr(bp))
Ftr(S, bp) == get_uat(S, get_footer_ptr(S, bp))

\* C1: every block met on the walk from the prologue to the epilogue has a
\* footer word equal to its header word.
C1_BoundaryTags ==
  Ready => LET w == Walk(Cur)
           IN  \A i \in 1 .. Len(w) - 1 : Hdr(Cur, w[i]) = Ftr(Cur, w[i])

\* C2: the prologue header and footer are (8, allocated), and the walk ends
\* on the epilogue header (0, allocated) at heap_brk - 4 without passing
\* heap_brk.
C2_CoverageSentinels ==
  Ready => LET w == Walk(Cur)
               e == w[Len(w)]
           IN  /\ Hdr(Cur, heap_listp) = pack(W(DOUBLE_SIZE), 1)
               /\ get_uat(Cur, heap_listp) = pack(W(DOUBLE_SIZE), 1)
               /\ \A i \in 1 .. Len(w) : w[i] <= heap_brk
               /\ get_header_ptr(e) = heap_brk - W(WORD_SIZE)
               /\ Hdr(Cur, e) = pack(0, 1)

\* C3: no two neighbours of the walk both have allocated bit 0.
C3_NoAdjacentFrees ==
  Ready => LET w == Walk(Cur)
           IN  \A i \in 1 .. Len(w) - 1 :
                 get_allocated(Cur, get_header_ptr(w[i]))
                 \/ get_allocated(Cur, get_header_ptr(w[i + 1]))

\* C4: a word the caller wrote into the payload of a live handle reads back
\* unchanged while the handle is live.
C4_PayloadIntegrity ==
  status = "run" => \A a \in DOMAIN shadow : get_uat(Cur, a) = shadow[a]

\* C5: a non-null handle returned by allocate(n), n > 0, is the payload base
\* of a block allocated in header and footer, of capacity at least n, lying
\* between the first block header and heap_brk.
C5_AllocateSuccess ==
  (status = "run" /\ last.op = "malloc" /\ last.n > 0 /\ last.ret # NULL) =>
    LET h == last.ret
        size == get_blksize(Cur, get_header_ptr(h))
    IN  /\ get_allocated(Cur, get_header_ptr(h))
        /\ get_allocated(Cur, get_footer_ptr(Cur, h))
        /\ (size - W(DOUBLE_SIZE)) * WORD_SIZE >= last.n
        /\ get_header_ptr(h) >= heap_start + W(12)
        /\ h + size <= heap_brk

\* C6: every non-null handle returned by allocate or reallocate is a
\* multiple of 8.
C6_HandleAlignment ==
  (status = "run" /\ last.op \in {"malloc", "realloc"} /\ last.ret # NULL) =>
    last.ret % W(DOUBLE_SIZE) = 0

\* a reallocate that moved a live block behind another live block
C6_Reached ==
  /\ status = "run" /\ last.op = "realloc" /\ last.n > 0 /\ last.h # NULL
  /\ last.ret > heap_listp + W(DOUBLE_SIZE) /\ last.ret < heap_brk
  /\ Cardinality(DOMAIN live) = 2

\* C7: allocate(n), n > 0, that finds no fit while the region cannot supply
\* the extension returns null and leaves every heap word, heap_listp,
\* heap_brk and the live handles as they were.
C7_AllocateFailure ==
  [][(/\ Ready /\ last'.op = "malloc" /\ last'.n > 0
      /\ find_fit(Cur, W(adjusted_size(last'.n))).ret = NULL
      /\ heap_brk + W(IF adjusted_size(last'.n) > CHUNK_SIZE
                       THEN adjusted_size(last'.n) ELSE CHUNK_SIZE) > heap_max_addr)
     => (/\ status' = "run" /\ last'.ret = NULL
         /\ mem' = mem /\ heap_listp' = heap_listp /\ heap_brk' = heap_brk
         /\ live' = live)]_vars

\* C8: a run that keeps allocating one fixed size without freeing gets null
\* after fewer than MAX_HEAP_SIZE / size + 2 successful allocations (fewer
\* than 22 for 1 MiB requests).
C8_Exhaustion ==
  (status = "run" /\ last.op = "malloc") =>
    Cardinality(DOMAIN live) < MAX_HEAP_SIZE \div last.n + 2

\* the blocks of the walk, each with its header and footer word
Abstract(S) ==
  LET w == Walk(S)
  IN  [i \in 1 .. Len(w) - 1 |-> <<w[i], Hdr(S, w[i]), Ftr(S, w[i])>>]

\* free of the handle that mm_malloc returned in m
FreeOf(m) == mm_free(m.S, m.ret, heap_start, junk)

\* C9: for every n > 0 that fits in a free block, allocate(n) followed by
\* free of the handle leaves the same blocks with the same sizes, allocated
\* bits and boundary tags.
C9_RoundTrip ==
  Ready => \A n \in Sizes :
    find_fit(Cur, W(adjusted_size(n))).ret # NULL =>
      Abstract(FreeOf(mm_malloc(Cur, n, heap_start, junk))) = Abstract(Cur)

Rd(m, j, p) == IF p \in DOMAIN m THEN m[p] ELSE j

\* the k low-order bytes of a word
LowBytes(w, k) == MixWord(w, MkWord(0), k)

\* C10: a non-null q := reallocate(h, n) of a live h, n > 0, holds the first
\* min(n, size(hdr(h)) - 8) bytes that were at h, q's block is allocated with
\* capacity at least n, and h's block is free.
C10_ReallocPreserves ==
  [][(/\ status = "run" /\ status' = "run" /\ nalloc' = nalloc + 1
      /\ last'.op = "realloc" /\ last'.n > 0 /\ last'.h # NULL
      /\ last'.ret # NULL)
     => LET h == last'.h
            q == last'.ret
            cap == (get_blksize(Cur, get_header_ptr(h)) - W(DOUBLE_SIZE)) * WORD_SIZE
            cnt == IF last'.n < cap THEN last'.n ELSE cap
            qhdr == Rd(mem', junk', get_header_ptr(q))
        IN  /\ \A k \in 0 .. cnt \div WORD_SIZE - 1 :
                 Rd(mem', junk', q + k) = get_uat(Cur, h + k)
            /\ cnt % WORD_SIZE # 0 =>
                 LowBytes(Rd(mem', junk', q + cnt \div WORD_SIZE), cnt % WORD_SIZE)
                 = LowBytes(get_uat(Cur, h + cnt \div WORD_SIZE), cnt % WORD_SIZE)
            /\ qhdr.r % 2 = 1
            /\ (qhdr.q - (qhdr.q % 2) - W(DOUBLE_SIZE)) * WORD_SIZE >= last'.n
            /\ Rd(mem', junk', get_header_ptr(h)).r % 2 = 0]_vars

\* mm_malloc(m) returned r without moving heap_brk: r.ret is the payload base
\* of a block allocated in header and footer, of capacity at least m, inside
\* the heap
Served(r, m, brk) ==
  /\ r.ret # NULL /\ ~r.S.ub /\ r.S.heap_brk = brk
  /\ get_allocated(r.S, get_header_ptr(r.ret))
  /\ get_allocated(r.S, get_footer_ptr(r.S, r.ret))
  /\ (get_blksize(r.S, get_header_ptr(r.ret)) - W(DOUBLE_SIZE)) * WORD_SIZE >= m
  /\ get_header_ptr(r.ret) >= r.S.heap_start + W(12)
  /\ r.ret + get_blksize(r.S, get_header_ptr(r.ret)) <= brk

\* C11: right after free(h) of a live handle whose block had payload
\* capacity c, allocate(m) succeeds for every 0 < m <= c, with a valid
\* allocated block inside the heap and without extending the heap.
C11_ReuseAfterFree ==
  [][(/\ status = "run" /\ status' = "run" /\ heap_listp # NULL
      /\ last'.op = "free"
      /\ last'.h \in DOMAIN live /\ last'.h \notin DOMAIN live')
     => \A m \in 1 .. (get_blksize(Cur, get_header_ptr(last'.h)) - W(DOUBLE_SIZE))
                        * WORD_SIZE :
          Served(mm_malloc(Cur', m, heap_start', junk'), m, heap_brk')]_vars

\* C12: after init and three allocations of 64 bytes, freeing the three
\* blocks in any order leaves one free block of CHUNK_SIZE bytes between
\* prologue and epilogue, its footer equal to its header.
C12_FullCoalescing ==
  (status = "run" /\ nalloc = 3 /\ live = NoLive /\ last.op = "free") =>
    LET w == Walk(Cur)
    IN  /\ Len(w) = 3
        /\ Hdr(Cur, w[2]) = pack(W(CHUNK_SIZE), 0)
        /\ Ftr(Cur, w[2]) = pack(W(CHUNK_SIZE), 0)
        /\ Hdr(Cur, w[3]) = pack(0, 1)

\* the step is a call of mm_malloc
MallocStep ==
  status = "run" /\ last'.op = "malloc"
  /\ (status' = "crashed" \/ nalloc' = nalloc + 1)

\* the state after the step is the one r holds, base being the new region
FreshlyServed(r, base) ==
  /\ region' = "live" /\ heap_start' = base /\ mem' = r.S.mem
  /\ heap_brk' = r.S.heap_brk /\ heap_listp' = r.S.heap_listp
  /\ last'.ret = r.ret /\ r.ret # NULL

\* C13: in the Uninitialized state, before any init or after teardown,
\* allocate(n), n > 0, first lays down a fresh heap in a fresh region and then
\* serves the request; no call after teardown touches the released region.
C13_LazyInit ==
  [][(MallocStep /\ region # "live" /\ last'.n > 0)
     => /\ status' = "run"
        /\ \E base \in Bases, jk \in JunkWords :
             FreshlyServed(malloc_ready(mm_init(Cur, base, jk).S, last'.n), base)]_vars

\* the sizes, in words, of the blocks strictly between prologue and epilogue
InnerSizes(S) ==
  LET w == Walk(S)
  IN  [i \in 1 .. Len(w) - 2 |-> get_blksize(S, get_header_ptr(w[i + 1]))]

\* C14: every block walked strictly between the prologue and the epilogue
\* has a size that is a multiple of 8 and at least 16.
C14_MinimumSize ==
  Ready => \A i \in DOMAIN InnerSizes(Cur) :
             /\ InnerSizes(Cur)[i] % W(DOUBLE_SIZE) = 0
             /\ InnerSizes(Cur)[i] >= W(2 * DOUBLE_SIZE)

\* a served request has left a block of the minimum size in the heap
C14_Reached ==
  /\ Ready /\ last.op = "malloc" /\ last.ret # NULL
  /\ \E i \in DOMAIN InnerSizes(Cur) : InnerSizes(Cur)[i] = W(2 * DOUBLE_SIZE)

RECURSIVE SumTo(_, _)
SumTo(f, n) == IF n = 0 THEN 0 ELSE f[n] + SumTo(f, n - 1)

\* the sizes of the walked blocks added up, prologue included, in words
WalkedSize(S) ==
  W(DOUBLE_SIZE) + SumTo(InnerSizes(S), Len(InnerSizes(S)))

\* C15: the sizes of the blocks from the prologue through the epilogue add up
\* to heap_brk - (heap_start + 4).
C15_CoverageSum ==
  Ready => WalkedSize(Cur) = heap_brk - (heap_start + W(4))

\* C15, amended: the sizes add up to heap_brk - (heap_start + 8): the pad
\* word and the epilogue header are outside every block.
C15_CoverageSumTiled ==
  Ready => WalkedSize(Cur) = heap_brk - (heap_start + W(8))

\* a free has left a heap of several blocks over the first chunk
C15_Reached ==
  /\ Ready /\ region = "live" /\ last.op = "free"
  /\ Len(Walk(Cur)) > 3
  /\ WalkedSize(Cur) = W(DOUBLE_SIZE + CHUNK_SIZE)

\* p := allocate(16) has just been served as the first request since init
AfterAllocate16 ==
  /\ status = "run" /\ region = "live" /\ heap_listp # NULL
  /\ nalloc = 1 /\ last.op = "malloc" /\ last.n = 16 /\ last.ret # NULL

\* C16: after init, p := allocate(16) leaves a free block immediately
\* following p of size CHUNK - 16.
C16_SplitScenario ==
  AfterAllocate16 =>
    Hdr(Cur, get_nextblk_ptr(Cur, last.ret)) = pack(W(CHUNK_SIZE - 16), 0)

\* C16, amended: the free block immediately following p has the size
\* CHUNK - size(hdr(p)) in header and footer, and that is CHUNK - 32.
C16_SplitRemainder ==
  AfterAllocate16 =>
    LET p == last.ret
        b2 == get_nextblk_ptr(Cur, p)
        rest == W(CHUNK_SIZE) - get_blksize(Cur, get_header_ptr(p))
    IN  /\ Hdr(Cur, b2) = pack(rest, 0)
        /\ Ftr(Cur, b2) = pack(rest, 0)
        /\ rest = W(CHUNK_SIZE - 32)
        /\ Hdr(Cur, get_nextblk_ptr(Cur, b2)) = pack(0, 1)

\* the first allocate(16) since init has returned the first payload
C16_Reached ==
  AfterAllocate16 /\ last.ret = heap_listp + W(DOUBLE_SIZE) /\ last.ret \in DOMAIN live

\* a call of mm_malloc(0)
MallocZeroStep == MallocStep /\ last'.n = 0

\* C17: allocate(0) returns null and leaves every heap word, heap_listp and
\* heap_brk as before, in every state, the uninitialized one included.
C17_AllocateZeroFrame ==
  [][MallocZeroStep
       => /\ last'.ret = NULL
          /\ mem' = mem /\ heap_listp' = heap_listp /\ heap_brk' = heap_brk]_vars

\* the state is the one mm_init leaves in a region at base
Initialised(r, base) ==
  /\ r.ret = 0 /\ region' = "live" /\ heap_start' = base
  /\ mem' = r.S.mem /\ heap_brk' = r.S.heap_brk
  /\ heap_listp' = r.S.heap_listp /\ heap_max_addr' = r.S.heap_max_addr

\* C17, amended: allocate(0) returns null; once heap_listp is set it leaves
\* the heap unchanged, and before that it performs init and nothing more.
C17_AllocateZero ==
  [][MallocZeroStep
       => /\ last'.ret = NULL /\ status' = "run" /\ live' = live
          /\ IF heap_listp # NULL
             THEN UNCHANGED <<mem, region, heap_start, heap_brk,
                              heap_max_addr, heap_listp>>
             ELSE \E base \in Bases, jk \in JunkWords :
                    Initialised(mm_init(Cur, base, jk), base)]_vars

\* allocate(0) has returned null in a heap that holds a live block
C17_Reached ==
  /\ Ready /\ region = "live" /\ live # NoLive
  /\ last.op = "malloc" /\ last.n = 0 /\ last.ret = NULL

\* a call of mem_sbrk
SbrkStep == status = "run" /\ last'.op = "sbrk" /\ nalloc' = nalloc + 1

\* heap_brk + delta > heap_max for the unsigned delta written d
Exceeds(d) == d < 0 \/ heap_brk + W(d) > heap_max_addr

\* C18: region_sbrk(delta) returns null and leaves heap_brk unchanged when
\* heap_brk + delta > heap_max, and otherwise returns the old break and
\* advances heap_brk by delta; so heap_start <= heap_brk <= heap_max holds
\* after every call and heap_brk never decreases.
C18_RegionContract ==
  [][SbrkStep
       => /\ IF Exceeds(last'.n)
             THEN last'.ret = NULL /\ heap_brk' = heap_brk
             ELSE last'.ret = heap_brk /\ heap_brk' = heap_brk + W(last'.n)
          /\ heap_start' <= heap_brk' /\ heap_brk' <= heap_max_addr'
          /\ heap_brk' >= heap_brk]_vars

\* the heap of S is well formed: boundary tags agree, the sentinels are in
\* place, the walk ends at heap_brk and no two free blocks are neighbours
WellFormed ==
  /\ Ready /\ region = "live"
  /\ C1_BoundaryTags /\ C2_CoverageSentinels /\ C3_NoAdjacentFrees
  /\ \A h \in DOMAIN live :
       /\ \E i \in 2 .. Len(Walk(Cur)) - 1 : Walk(Cur)[i] = h
       /\ get_allocated(Cur, get_header_ptr(h))

\* S with the block b marked free, as mm_free leaves it for coalesce
MarkedFree(S, b) ==
  put_footer(put_header(S, b, pack(get_blksize(S, get_header_ptr(b)), 0)),
             b, pack(get_blksize(S, get_header_ptr(b)), 0))

\* the size of the span coalesce(b) has to merge in S
MergedSize(S, b) ==
  get_blksize(S, get_header_ptr(b))
  + (IF get_allocated(S, b - W(DOUBLE_SIZE)) THEN 0
     ELSE get_blksize(S, b - W(DOUBLE_SIZE)))
  + (IF get_allocated(S, get_header_ptr(get_nextblk_ptr(S, b))) THEN 0
     ELSE get_blksize(S, get_header_ptr(get_nextblk_ptr(S, b))))

\* the first payload word of that span
MergedStart(S, b) ==
  IF get_allocated(S, b - W(DOUBLE_SIZE)) THEN b ELSE get_prevblk_ptr(S, b)

\* r is what coalesce(b) had to make of S
Coalesced(S, b, r) ==
  /\ r.ret = MergedStart(S, b)
  /\ get_uat(r.S, get_header_ptr(MergedStart(S, b))) = pack(MergedSize(S, b), 0)
  /\ get_uat(r.S, MergedStart(S, b) + MergedSize(S, b) - W(DOUBLE_SIZE))
       = pack(MergedSize(S, b), 0)

\* C19: in an otherwise well-formed heap, coalesce(b) of a free block b
\* leaves header and footer (s', free) at the two ends of the merged span and
\* returns b or prev_block(b), in each of the four neighbour cases and
\* whatever block follows the span.
C19_CoalescePost ==
  WellFormed =>
    \A b \in DOMAIN live :
      Coalesced(MarkedFree(Cur, b), b, coalesce(MarkedFree(Cur, b), b))

\* the larger of two numbers
Larger(x, y) == IF x > y THEN x ELSE y

\* a call of mm_malloc(n), n > 0, on a heap in which find_fit finds nothing
NoFitStep ==
  /\ MallocStep /\ heap_listp # NULL /\ region = "live" /\ last'.n > 0
  /\ find_fit(Cur, W(adjusted_size(last'.n))).ret = NULL

\* C20: when allocate(n) finds no fit and succeeds, heap_brk has grown by
\* exactly max(asize, CHUNK), the new epilogue is at heap_brk - 4 and the
\* returned block lies inside the heap.
C20_ExtensionAmount ==
  [][(NoFitStep /\ status' = "run" /\ last'.ret # NULL)
       => /\ heap_brk' = heap_brk + W(Larger(adjusted_size(last'.n), CHUNK_SIZE))
          /\ get_uat(Cur', heap_brk' - W(WORD_SIZE)) = pack(0, 1)
          /\ last'.ret >= heap_brk
          /\ last'.ret + get_blksize(Cur', get_header_ptr(last'.ret))
               <= heap_brk']_vars

\* the smallest multiple of 8 that is >= x
round_up_to_multiple_of_8(x) == ((x + 7) \div 8) * 8

\* C21: for every n > 0 the adjusted size is 16 when n <= 8 and otherwise
\* the smallest multiple of 8 that is >= n + 8.
C21_AdjustedSize ==
  last.op = "asize" =>
    last.ret = IF last.n <= DOUBLE_SIZE THEN 2 * DOUBLE_SIZE
               ELSE round_up_to_multiple_of_8(last.n + 2 * WORD_SIZE)

\* the free blocks of the walk of S that have room for asize words
Fits(S, asize) ==
  {Walk(S)[i] : i \in {k \in 1 .. Len(Walk(S)) - 1 :
                         /\ ~get_allocated(S, get_header_ptr(Walk(S)[k]))
                         /\ get_blksize(S, get_header_ptr(Walk(S)[k])) >= asize}}

Lowest(X) == CHOOSE x \in X : \A y \in X : x <= y

\* a call of mm_malloc(n), n > 0, on a well-formed heap
AllocateStep == WellFormed /\ MallocStep /\ last'.n > 0

\* C22: on a well-formed heap, when a free block of size >= asize exists,
\* allocate(n) returns the lowest such block and does not extend the heap;
\* find_fit returns null only when there is none.
C22_FirstFit ==
  [][AllocateStep
       => IF Fits(Cur, W(adjusted_size(last'.n))) # {}
          THEN /\ status' = "run"
               /\ last'.ret = Lowest(Fits(Cur, W(adjusted_size(last'.n))))
               /\ heap_brk' = heap_brk
          ELSE find_fit(Cur, W(adjusted_size(last'.n))).ret = NULL]_vars

\* the block just returned lies behind a free block that was too small
C22_Reached ==
  /\ WellFormed /\ last.op = "malloc" /\ last.ret # NULL
  /\ last.ret \in DOMAIN live
  /\ \E i \in 2 .. Len(Walk(Cur)) - 1 :
       /\ Walk(Cur)[i] < last.ret
       /\ ~get_allocated(Cur, get_header_ptr(Walk(Cur)[i]))

\* every handle of the walk is a multiple of 8
Aligned == Ready => \A i \in 1 .. Len(Walk(Cur)) : Walk(Cur)[i] % W(DOUBLE_SIZE) = 0

\* the invariants of a consistent heap: alignment, boundary tags, sentinels,
\* coverage, no adjacent free blocks, minimum size
Consistent ==
  /\ Aligned /\ C1_BoundaryTags /\ C2_CoverageSentinels
  /\ C3_NoAdjacentFrees /\ C14_MinimumSize

\* a call of mm_checkheap(0) that returned
CheckStep == status = "run" /\ status' = "run" /\ last'.op = "checkheap"

\* C23: check_heap reports at least one diagnostic on every heap that
\* violates an invariant of a consistent heap, reports nothing on a heap that
\* satisfies them all, and never modifies the heap.
C23_CheckerComplete ==
  [][(CheckStep /\ region = "live")
       => /\ (last'.n = 0) <=> Consistent
          /\ UNCHANGED <<mem, heap_start, heap_brk, heap_max_addr, heap_listp>>]_vars

\* the words [b - 4, b - 4 + size(hdr(b))) of the block of handle b
BlockLo(b) == get_header_ptr(b)
BlockHi(b) == get_header_ptr(b) + get_blksize(Cur, get_header_ptr(b))

Disjoint(a, b) == BlockHi(a) <= BlockLo(b) \/ BlockHi(b) <= BlockLo(a)

\* C24: the blocks of the live handles are pairwise disjoint, and no live
\* block overlaps a block that the heap walk shows as free.
C24_DisjointLive ==
  (Ready /\ region = "live") =>
    /\ \A a \in DOMAIN live : \A b \in DOMAIN live \ {a} : Disjoint(a, b)
    /\ \A a \in DOMAIN live :
         \A i \in 2 .. Len(Walk(Cur)) - 1 :
           get_allocated(Cur, get_header_ptr(Walk(Cur)[i]))
           \/ Disjoint(a, Walk(Cur)[i])

\* a call of mm_free(h) on a live handle of a well-formed heap that returned
FreeStep ==
  /\ WellFormed /\ status' = "run"
  /\ last'.op = "free" /\ last'.h \in DOMAIN live /\ last'.h \notin DOMAIN live'

\* the words that read differently after the step
Changed == {p \in DOMAIN mem' : get_uat(Cur', p) # get_uat(Cur, p)}

\* C25: free(h) changes only words of the block of h and of the free blocks
\* directly adjacent to it; every other block, the allocated block behind
\* the merged span included, the sentinels, heap_listp and heap_brk are
\* unchanged.
C25_FreeFrame ==
  [][FreeStep
       => /\ \A p \in Changed :
               /\ get_header_ptr(MergedStart(Cur, last'.h)) <= p
               /\ p < get_header_ptr(MergedStart(Cur, last'.h))
                        + MergedSize(Cur, last'.h)
          /\ heap_listp' = heap_listp /\ heap_brk' = heap_brk]_vars

\* the handles of the blocks that the walk of S shows as allocated, the
\* sentinels left out
WalkedAllocated(S) ==
  {Walk(S)[i] : i \in {k \in 2 .. Len(Walk(S)) - 1 :
                         get_allocated(S, get_header_ptr(Walk(S)[k]))}}

\* C26: the blocks marked allocated on the heap walk between prologue and
\* epilogue are exactly the blocks of the live handles.
C26_AccountingRefinement ==
  (Ready /\ region = "live") => WalkedAllocated(Cur) = DOMAIN live
====
